---- MODULE Spec2Model ----
(***************************************************************************)
(* A model of join.py: join, join_helper, join_by_update and join_lists.   *)
(*                                                                         *)
(* One behaviour is one call join(items, joiner).  The caller's objects    *)
(* are the joiner and one object per position of `items`; the objects the  *)
(* call builds itself are the accumulator `acc` and the returned value     *)
(* `ret`.  Loops run one iteration per step, and the lazy chain returned   *)
(* by the fallback strategy is consumed one element per step.              *)
(***************************************************************************)
EXTENDS Integers, Sequences, FiniteSets, TLC

VARIABLES
    joiner,     \* the `joiner` argument (the sentinel when omitted)
    items,      \* the objects `items` holds or produces, in order
    itemsKind,  \* "list": a realized container; "generator": a one-shot iterator; "tuple": the *items of join_helper
    pc,         \* position in the call
    acc,        \* the object join builds for itself (list(first), result_type())
    result,     \* the location the local name `result` is bound to
    k,          \* loop position: how many operands the running loop has taken
    index,      \* join_lists: the write index of the pre-sizing path
    count,      \* join_lists: the number of placeholder slots added
    ret,        \* what the call returned or raised
    chainQ,     \* the iterators the returned chain still has to drain
    teeBuf,     \* itertools.tee: the joiner elements read from iter(joiner) so far
    yielded     \* the elements the caller has taken from the returned chain

vars == <<joiner, items, itemsKind, pc, acc, result, k, index, count, ret,
          chainQ, teeBuf, yielded>>

----------------------------------------------------------------------------
(* Bounds of the model. *)

\* the longest element sequence of one object
MaxLen == 2
\* the largest number of items of a short call
MaxItems == 3
\* the long calls have THRESHOLD + 1 .. THRESHOLD + 1 + Extra items
Extra == 1
\* set elements and mapping keys are 1 .. NKeys
NKeys == 2

\* `if li > 100`
THRESHOLD == 100

\* the placeholder `None` of `[None] * count`; no element of any object equals it
None == 0

----------------------------------------------------------------------------
(* Objects. *)

Obj(kind, val) == [kind |-> kind, val |-> val, pos |-> 0]

\* the default value of `joiner`: object()
Sentinel == Obj("object", <<>>)

NoObj == Obj("none", <<>>)

\* hasattr(prototype, 'count') and hasattr(prototype, '__add__')
HasCountAdd(kind) ==
    kind \in {"list", "tuple", "namedtuple", "listsub", "str", "bytearray"}

\* isinstance(prototype, (tuple, list))
IsTupleOrList(kind) == kind \in {"list", "tuple", "namedtuple", "listsub"}

\* isinstance(prototype, tuple)
IsTuple(kind) == kind \in {"tuple", "namedtuple"}

\* isinstance(prototype, basestring)
IsBasestring(kind) == kind = "str"

\* hasattr(result_type, 'update')
HasUpdate(kind) == kind \in {"set", "dict"}

\* hasattr(result_type, 'union')
HasUnion(kind) == kind = "set"

\* len(x) is defined: not for a one-shot iterator, nor for a class that has only __iter__
HasLen(kind) == kind \notin {"iterator", "iterable", "object", "number", "none"}

\* iter(x) is defined: not for a plain object() nor for a number
IsIterable(kind) == kind \notin {"object", "number", "none"}

\* what iterating the object produces from where it stands
Yield(o) == SubSeq(o.val, o.pos + 1, Len(o.val))

\* the object after it was iterated to its end: only a one-shot iterator changes
Drained(o) == IF o.kind = "iterator" THEN [o EXCEPT !.pos = Len(o.val)] ELSE o

\* locations of objects
Private == [space |-> "private", idx |-> 0]
ItemLoc(i) == [space |-> "item", idx |-> i]
NoLoc == [space |-> "none", idx |-> 0]

----------------------------------------------------------------------------
(* Results. *)

NoRet == [status |-> "none", kind |-> "none", val |-> <<>>, wrapped |-> FALSE,
          loc |-> "none"]

Raised(exc) == [status |-> exc, kind |-> "none", val |-> <<>>, wrapped |-> FALSE,
                loc |-> "none"]

\* a value built by the call: a new object
Fresh(kind, val) == [status |-> "ok", kind |-> kind, val |-> val,
                     wrapped |-> FALSE, loc |-> "fresh"]

----------------------------------------------------------------------------
(* The inputs of a call.  Every position of `items` holds an object of its *)
(* own, and the joiner is one more: the elements of the object at position *)
(* i are tagged with i (the joiner is position 0), so that the place of    *)
(* every element of a result names the operand it came from.               *)

Tag(i, m) == i * (MaxLen + 1) + m

ElemsOf(i, n) == [m \in 1..n |-> Tag(i, m)]

EmptyDict == [key \in {} |-> 0]

SeqShapes(kinds) == {[kind |-> kd, n |-> n, dom |-> {}] : kd \in kinds, n \in 0..MaxLen}

UpdShapes(kinds) == {[kind |-> kd, n |-> 0, dom |-> d] : kd \in kinds, d \in SUBSET (1..NKeys)}

\* the object of shape sh at position i; a mapping at position i maps its keys to i
Make(sh, i) ==
    CASE sh.kind = "set" -> Obj("set", sh.dom)
      [] sh.kind = "dict" -> Obj("dict", [key \in sh.dom |-> i])
      [] OTHER -> Obj(sh.kind, ElemsOf(i, sh.n))

Patterns(S) == UNION {[1..p -> S] : p \in {1, 2}}

\* n items whose shapes repeat the pattern
Patterned(pat, n) == [i \in 1..n |-> Make(pat[((i - 1) % Len(pat)) + 1], i)]

JoinerChoices(S) == {Sentinel} \cup {Make(sh, 0) : sh \in S}

AllSeqKinds == {"list", "tuple", "namedtuple", "listsub", "iterator", "iterable"}

Start(j, its, ik) ==
    /\ joiner = j
    /\ items = its
    /\ itemsKind = ik
    /\ pc = "call"
    /\ acc = NoObj
    /\ result = NoLoc
    /\ k = 0
    /\ index = 0
    /\ count = 0
    /\ ret = NoRet
    /\ chainQ = <<>>
    /\ teeBuf = <<>>
    /\ yielded = <<>>

\* short calls over lists, tuples, their subtypes and plain iterables; the
\* joiner may also be a number, which is not iterable
InitShort ==
    \E j \in JoinerChoices(SeqShapes(AllSeqKinds)) \cup {Obj("number", <<>>)}, n \in 0..MaxItems,
       pat \in Patterns(SeqShapes(AllSeqKinds)), ik \in {"list", "generator"} :
        Start(j, Patterned(pat, n), ik)

\* calls with more than THRESHOLD remaining items, or exactly THRESHOLD: a list
\* first item and joiner, and remaining items that are lists or one-shot iterators
InitLong ==
    \E j \in JoinerChoices(SeqShapes({"list"})), f \in SeqShapes({"list"}),
       pat \in Patterns(SeqShapes({"list", "iterator"})),
       n \in (THRESHOLD + 1)..(THRESHOLD + 1 + Extra) :
        Start(j, [i \in 1..n |-> IF i = 1 THEN Make(f, 1)
                                 ELSE Make(pat[((i - 2) % Len(pat)) + 1], i)], "list")

\* calls over character strings, and over a sequence type that is no list, tuple or string
InitStr ==
    \E kd \in {"str", "bytearray"} :
        \E j \in JoinerChoices(SeqShapes({kd})), n \in 0..MaxItems,
           pat \in Patterns(SeqShapes({kd})), ik \in {"list", "generator"} :
            Start(j, Patterned(pat, n), ik)

\* calls over sets and over mappings
InitUpdate ==
    \E kd \in {"set", "dict"} :
        \E j \in JoinerChoices(UpdShapes({kd})), n \in 0..MaxItems,
           pat \in Patterns(UpdShapes({kd})), ik \in {"list", "generator"} :
            Start(j, Patterned(pat, n), ik)

Init == InitShort \/ InitLong \/ InitStr \/ InitUpdate

----------------------------------------------------------------------------
(* join *)

\* joiner is join.func_defaults[0]
no_joiner == joiner = Sentinel

first == items[1]

\* prototype = first if no_joiner else joiner
prototype == IF no_joiner THEN first ELSE joiner

\* `not items`: an empty container is false, a generator object never is
Falsy == itemsKind = "list" /\ Len(items) = 0

EmptyVal(kind) ==
    CASE kind = "set" -> {}
      [] kind = "dict" -> EmptyDict
      [] OTHER -> <<>>

\* type(joiner)(): an iterator type has no constructor, and a subtype whose
\* constructor takes its fields one by one accepts no arguments only without fields
EmptyInstance(o) ==
    IF \/ o.kind \in {"iterator", "listsub"}
       \/ o.kind = "namedtuple" /\ Len(o.val) > 0
    THEN Raised("TypeError")
    ELSE Fresh(o.kind, EmptyVal(o.kind))

\* join_helper(joiner, *items): the items are realized into the argument tuple,
\* and the call fails when there is none to bind `first` to
CallHelper ==
    /\ itemsKind' = "tuple"
    /\ IF Len(items) = 0
       THEN ret' = Raised("TypeError") /\ pc' = "done"
       ELSE ret' = ret /\ pc' = "helper"

Join ==
    /\ pc = "call"
    /\ IF no_joiner
       THEN IF Falsy
            THEN ret' = Raised("TypeError") /\ pc' = "done" /\ itemsKind' = itemsKind
            ELSE CallHelper
       ELSE IF ~IsIterable(joiner.kind)
            THEN ret' = Raised("TypeError") /\ pc' = "done" /\ itemsKind' = itemsKind
            ELSE IF Falsy
                 THEN ret' = EmptyInstance(joiner) /\ pc' = "done" /\ itemsKind' = itemsKind
                 ELSE CallHelper
    /\ UNCHANGED <<joiner, items, acc, result, k, index, count, chainQ, teeBuf, yielded>>

----------------------------------------------------------------------------
(* join_helper, the sequence strategy for tuple and list, and join_lists *)

\* the object the name `result` is bound to
Deref(loc) == IF loc.space = "item" THEN items[loc.idx] ELSE acc

\* mutant of ListCopy: `first` itself is handed to join_lists
NoCopy(loc) == loc

\* list(first): a new list object, whatever `first` is
ListCopy(loc) == Private

\* an assignment through `result` of new contents, while the item at position
\* `consumed` (0: none) is iterated to its end
StoreResult(newval, consumed) ==
    /\ acc' = IF result.space = "private" THEN [acc EXCEPT !.val = newval] ELSE acc
    /\ items' = [i \in 1..Len(items) |->
                    IF result.space = "item" /\ i = result.idx
                    THEN [items[i] EXCEPT !.val = newval]
                    ELSE IF i = consumed THEN Drained(items[i]) ELSE items[i]]

HelperLists ==
    /\ pc = "helper"
    /\ HasCountAdd(prototype.kind)
    /\ IsTupleOrList(prototype.kind)
    /\ LET loc == ListCopy(ItemLoc(1))
       IN /\ result' = loc
          /\ acc' = IF loc.space = "private" THEN Obj("list", Yield(first)) ELSE acc
          /\ items' = IF loc.space = "private"
                      THEN [items EXCEPT ![1] = Drained(@)]
                      ELSE items
    /\ pc' = "join_lists"
    /\ UNCHANGED <<joiner, itemsKind, k, index, count, ret, chainQ, teeBuf, yielded>>

\* the joiner's elements, none when it is omitted: the `joiner` parameter of
\* join_lists ([] if no_joiner else joiner), and `if no_joiner: joiner = ''`
J == IF no_joiner THEN <<>> ELSE joiner.val

li == Len(items) - 1

lj == Len(J)

RECURSIVE SumLen(_, _, _)
\* sum(len(item) for item in its[lo], ..., its[hi]) (the range is halved to keep
\* the evaluation shallow)
SumLen(its, lo, hi) ==
    IF lo > hi THEN 0
    ELSE IF lo = hi THEN Len(its[lo].val)
    ELSE SumLen(its, lo, (lo + hi) \div 2) + SumLen(its, ((lo + hi) \div 2) + 1, hi)

\* [None] * n
Nones(n) == [m \in 1..n |-> None]

Min(a, b) == IF a < b THEN a ELSE b

Max(a, b) == IF a > b THEN a ELSE b

\* s[a:b] = t, the indices clipped as a slice clips them
SliceAssign(s, a, b, t) ==
    LET lo == Min(a, Len(s))
        hi == Max(lo, Min(b, Len(s)))
    IN SubSeq(s, 1, lo) \o t \o SubSeq(s, hi + 1, Len(s))

\* count = sum(len(item) for item in items) + li * lj
Count == SumLen(items, 2, Len(items)) + li * lj

JoinLists ==
    /\ pc = "join_lists"
    /\ IF li > THRESHOLD
       THEN IF \E i \in 2..Len(items) : ~HasLen(items[i].kind)
            THEN /\ ret' = Raised("TypeError")
                 /\ pc' = "done"
                 /\ UNCHANGED <<acc, items, count, index, k>>
            ELSE /\ count' = Count
                 /\ index' = Len(Deref(result).val)
                 /\ StoreResult(Deref(result).val \o Nones(Count), 0)
                 /\ pc' = "presize"
                 /\ k' = 1
                 /\ ret' = ret
       ELSE /\ pc' = "extend"
            /\ k' = 1
            /\ UNCHANGED <<acc, items, count, index, ret>>
    /\ UNCHANGED <<joiner, itemsKind, result, chainQ, teeBuf, yielded>>

\* mutant of NextIndex: the joiner's length is left out of the step
NextIndexNoJoiner(i, item) == i + Len(item.val)

\* index += lj + len(item)
NextIndex(i, item) == i + lj + Len(item.val)

\* result[index:index + lj] = joiner; result[index + lj:index + lj + len(item)] = item
PresizeWrite(r, i, item) ==
    SliceAssign(SliceAssign(r, i, i + lj, J), i + lj, i + lj + Len(item.val), Yield(item))

\* one iteration of the pre-sizing loop, on the item at position k + 1
PresizeStep ==
    /\ pc = "presize"
    /\ k <= li
    /\ StoreResult(PresizeWrite(Deref(result).val, index, items[k + 1]), k + 1)
    /\ index' = NextIndex(index, items[k + 1])
    /\ k' = k + 1
    /\ UNCHANGED <<joiner, itemsKind, pc, result, count, ret, chainQ, teeBuf, yielded>>

\* result.extend(joiner); result.extend(item)
Extended(r, item) == (r \o J) \o Yield(item)

\* one iteration of the incremental loop, on the item at position k + 1
ExtendStep ==
    /\ pc = "extend"
    /\ k <= li
    /\ StoreResult(Extended(Deref(result).val, items[k + 1]), k + 1)
    /\ k' = k + 1
    /\ UNCHANGED <<joiner, itemsKind, pc, result, index, count, ret, chainQ, teeBuf, yielded>>

\* result_type(result), and what the `except` makes of its failure.  list and
\* tuple take the elements of their argument.  A named tuple (a subtype of
\* tuple) takes one argument per field: with one field the argument itself, the
\* list `result`, becomes its only element (wrapped), and with any other number
\* of fields the call raises.  "listsub" is a subtype of list whose constructor
\* does not accept a single iterable.
ConvertResult(proto, r) ==
    CASE proto.kind \in {"list", "tuple"} -> Fresh(proto.kind, r)
      [] proto.kind = "namedtuple" /\ Len(proto.val) = 1 ->
            [Fresh("namedtuple", r) EXCEPT !.wrapped = TRUE]
      [] OTHER -> IF IsTuple(proto.kind) THEN Fresh("tuple", r) ELSE Fresh("list", r)

\* join_lists returns, and join_helper converts the result
Convert ==
    /\ pc \in {"presize", "extend"}
    /\ k > li
    /\ ret' = ConvertResult(prototype, Deref(result).val)
    /\ pc' = "done"
    /\ UNCHANGED <<joiner, items, itemsKind, acc, result, k, index, count, chainQ, teeBuf, yielded>>

\* an object as the caller passed it: an iterator not yet advanced
Orig(o) == [o EXCEPT !.pos = 0]

RECURSIVE ExtendLoop(_, _, _, _)
\* the accumulator r after the iterations of the incremental loop of join_lists
\* on its[lo], ..., its[hi], in that order.  The range is halved, and the first
\* half is evaluated (its length taken) before the second starts, to keep the
\* evaluation shallow.
ExtendLoop(r, its, lo, hi) ==
    IF lo > hi THEN r
    ELSE IF lo = hi THEN Extended(r, Orig(its[lo]))
    ELSE LET half == ExtendLoop(r, its, lo, (lo + hi) \div 2)
         IN IF Len(half) >= 0
            THEN ExtendLoop(half, its, ((lo + hi) \div 2) + 1, hi)
            ELSE half

\* one iteration of the pre-sizing loop on the accumulator st.r and the index st.i
PresizeBody(st, item) ==
    [r |-> PresizeWrite(st.r, st.i, item), i |-> NextIndex(st.i, item)]

RECURSIVE PresizeLoop(_, _, _, _)
\* accumulator and index after the iterations of the pre-sizing loop on
\* its[lo], ..., its[hi], in that order, evaluated like ExtendLoop
PresizeLoop(st, its, lo, hi) ==
    IF lo > hi THEN st
    ELSE IF lo = hi THEN PresizeBody(st, Orig(its[lo]))
    ELSE LET half == PresizeLoop(st, its, lo, (lo + hi) \div 2)
         IN IF Len(half.r) >= 0
            THEN PresizeLoop(half, its, ((lo + hi) \div 2) + 1, hi)
            ELSE half

\* what the `else` branch of join_lists makes of the accumulator r0 and the
\* items after the first (its[1])
ExtendPath(r0, its) == [status |-> "ok", val |-> ExtendLoop(r0, its, 2, Len(its))]

\* what the `if li > 100` branch of join_lists makes of them
PresizePath(r0, its) ==
    IF \E i \in 2..Len(its) : ~HasLen(its[i].kind)
    THEN [status |-> "TypeError", val |-> <<>>]
    ELSE [status |-> "ok",
          val |-> PresizeLoop([r |-> r0 \o Nones(SumLen(its, 2, Len(its)) + (Len(its) - 1) * lj),
                               i |-> Len(r0)], its, 2, Len(its)).r]

----------------------------------------------------------------------------
(* join_helper, the other sequence strategies *)

RECURSIVE StrJoin(_, _, _)
\* sep.join(its[n:]): the separator between consecutive strings only
StrJoin(sep, its, n) ==
    IF n > Len(its) THEN <<>>
    ELSE IF n = Len(its) THEN its[n].val
    ELSE (its[n].val \o sep) \o StrJoin(sep, its, n + 1)

\* first + joiner + joiner.join(items), with joiner = '' if no_joiner
StrResult(sep, its) == (its[1].val \o sep) \o StrJoin(sep, its, 2)

HelperStr ==
    /\ pc = "helper"
    /\ HasCountAdd(prototype.kind)
    /\ ~IsTupleOrList(prototype.kind)
    /\ IsBasestring(prototype.kind)
    /\ ret' = IF \E i \in 1..Len(items) : ~IsBasestring(items[i].kind)
              THEN Raised("TypeError")
              ELSE Fresh("str", StrResult(J, items))
    /\ pc' = "done"
    /\ UNCHANGED <<joiner, items, itemsKind, acc, result, k, index, count, chainQ, teeBuf, yielded>>

RECURSIVE Reduce(_, _, _)
\* reduce(result_type.__add__, (item if no_joiner else joiner + item for item in items), r)
Reduce(r, its, n) ==
    IF n > Len(its) THEN r ELSE Reduce(r \o (J \o its[n].val), its, n + 1)

HelperReduce ==
    /\ pc = "helper"
    /\ HasCountAdd(prototype.kind)
    /\ ~IsTupleOrList(prototype.kind)
    /\ ~IsBasestring(prototype.kind)
    /\ ret' = IF \E i \in 1..Len(items) : items[i].kind # prototype.kind
              THEN Raised("TypeError")
              ELSE IF Len(items) = 1
              THEN [Fresh(first.kind, first.val) EXCEPT !.loc = "item"]
              ELSE Fresh(prototype.kind, Reduce(first.val, items, 2))
    /\ pc' = "done"
    /\ UNCHANGED <<joiner, items, itemsKind, acc, result, k, index, count, chainQ, teeBuf, yielded>>

----------------------------------------------------------------------------
(* join_helper, the update strategy, and join_by_update *)

\* mutant of UpdateOperands: the joiner is left out of the merge
UpdateOperandsNoJoiner == items

\* the operands of the merge: joiner, first, *items
UpdateOperands == <<joiner>> \o items

RECURSIVE UnionAll(_, _, _)
\* s.union(*ops[n:]): a new set of the elements of s and of every operand
UnionAll(s, ops, n) ==
    IF n > Len(ops) THEN s ELSE UnionAll(s \cup ops[n].val, ops, n + 1)

HelperUnion ==
    /\ pc = "helper"
    /\ ~HasCountAdd(prototype.kind)
    /\ HasUpdate(prototype.kind)
    /\ HasUnion(prototype.kind)
    /\ ret' = IF \E i \in 1..Len(UpdateOperands) : ~IsIterable(UpdateOperands[i].kind)
              THEN Raised("TypeError")
              ELSE Fresh(prototype.kind, UnionAll({}, UpdateOperands, 1))
    /\ pc' = "done"
    /\ UNCHANGED <<joiner, items, itemsKind, acc, result, k, index, count, chainQ, teeBuf, yielded>>

\* join_by_update(result_type(), joiner, first, *items) is entered
HelperUpdate ==
    /\ pc = "helper"
    /\ ~HasCountAdd(prototype.kind)
    /\ HasUpdate(prototype.kind)
    /\ ~HasUnion(prototype.kind)
    /\ acc' = Obj(prototype.kind, EmptyVal(prototype.kind))
    /\ result' = Private
    /\ k' = 0
    /\ pc' = "update"
    /\ UNCHANGED <<joiner, items, itemsKind, index, count, ret, chainQ, teeBuf, yielded>>

\* d.update(e): the keys of e take e's values, the other keys of d keep theirs
DictUpdate(d, e) ==
    [key \in DOMAIN d \cup DOMAIN e |-> IF key \in DOMAIN e THEN e[key] ELSE d[key]]

\* for item in items: result.update(item)
UpdateStep ==
    /\ pc = "update"
    /\ k < Len(UpdateOperands)
    /\ LET op == UpdateOperands[k + 1]
       IN IF ~IsIterable(op.kind)
          THEN /\ ret' = Raised("TypeError")
               /\ pc' = "done"
               /\ UNCHANGED <<acc, k>>
          ELSE /\ acc' = [acc EXCEPT !.val = DictUpdate(@, op.val)]
               /\ k' = k + 1
               /\ UNCHANGED <<ret, pc>>
    /\ UNCHANGED <<joiner, items, itemsKind, result, index, count, chainQ, teeBuf, yielded>>

\* return result: the accumulator itself
UpdateReturn ==
    /\ pc = "update"
    /\ k = Len(UpdateOperands)
    /\ ret' = [Fresh(acc.kind, acc.val) EXCEPT !.loc = result.space]
    /\ pc' = "done"
    /\ UNCHANGED <<joiner, items, itemsKind, acc, result, k, index, count, chainQ, teeBuf, yielded>>

----------------------------------------------------------------------------
(* join_helper, the chain of iterators, and its consumption *)

\* iter(x) for the item at position i: a one-shot iterator is its own iterator,
\* any other iterable gets a new iterator that starts at its first element
ItemIter(i) ==
    [src |-> "item", idx |-> i, own |-> items[i].kind # "iterator", pos |-> 0]

\* the c-th iterator of tee(iter(joiner), len(to_chain))
TeeIter(c) == [src |-> "tee", idx |-> c, own |-> TRUE, pos |-> 0]

\* mutant of ChainOperands: izip(to_chain, tee(...)), each item before its joiner
ChainOperandsSwapped ==
    [m \in 1..(IF no_joiner THEN Len(items) ELSE 2 * Len(items) - 1) |->
        IF no_joiner THEN ItemIter(m)
        ELSE IF m = 1 THEN ItemIter(1)
        ELSE IF m % 2 = 0 THEN ItemIter((m \div 2) + 1)
        ELSE TeeIter((m - 1) \div 2)]

\* the arguments of the outer chain: iter(first), then to_chain, or the pairs
\* izip makes of the tee iterators and to_chain, flattened
ChainOperands ==
    [m \in 1..(IF no_joiner THEN Len(items) ELSE 2 * Len(items) - 1) |->
        IF no_joiner THEN ItemIter(m)
        ELSE IF m = 1 THEN ItemIter(1)
        ELSE IF m % 2 = 0 THEN TeeIter(m \div 2)
        ELSE ItemIter((m + 1) \div 2)]

HelperChain ==
    /\ pc = "helper"
    /\ ~HasCountAdd(prototype.kind)
    /\ ~HasUpdate(prototype.kind)
    /\ chainQ' = ChainOperands
    /\ ret' = Fresh("chain", <<>>)
    /\ pc' = "chain"
    /\ UNCHANGED <<joiner, items, itemsKind, acc, result, k, index, count, teeBuf, yielded>>

\* where iter(joiner), the source of the tee, stands
TeeSrcPos == IF joiner.kind = "iterator" THEN joiner.pos ELSE Len(teeBuf)

\* whether the iterator has an element left
HasNext(it) ==
    IF it.src = "tee" THEN it.pos < Len(teeBuf) \/ TeeSrcPos < Len(joiner.val)
    ELSE IF it.own THEN it.pos < Len(items[it.idx].val)
    ELSE items[it.idx].pos < Len(items[it.idx].val)

RECURSIVE Skip(_)
\* the chain drops the iterators that are exhausted
Skip(q) == IF q = <<>> THEN q ELSE IF HasNext(Head(q)) THEN q ELSE Skip(Tail(q))

\* the caller takes the next element of the chain, or finds it exhausted
ChainNext ==
    /\ pc = "chain"
    /\ LET q == Skip(chainQ)
       IN IF q = <<>>
          THEN /\ pc' = "done"
               /\ chainQ' = q
               /\ UNCHANGED <<joiner, items, teeBuf, yielded>>
          ELSE LET it == Head(q)
               IN /\ pc' = pc
                  /\ IF it.src = "tee"
                     THEN IF it.pos < Len(teeBuf)
                          THEN /\ yielded' = Append(yielded, teeBuf[it.pos + 1])
                               /\ UNCHANGED <<joiner, teeBuf>>
                          ELSE /\ yielded' = Append(yielded, joiner.val[TeeSrcPos + 1])
                               /\ teeBuf' = Append(teeBuf, joiner.val[TeeSrcPos + 1])
                               /\ joiner' = IF joiner.kind = "iterator"
                                            THEN [joiner EXCEPT !.pos = @ + 1]
                                            ELSE joiner
                     ELSE /\ yielded' = Append(yielded,
                                items[it.idx].val[(IF it.own THEN it.pos ELSE items[it.idx].pos) + 1])
                          /\ UNCHANGED <<joiner, teeBuf>>
                  /\ items' = IF it.src = "item" /\ ~it.own
                              THEN [items EXCEPT ![it.idx].pos = @ + 1]
                              ELSE items
                  /\ chainQ' = IF it.src = "item" /\ ~it.own
                               THEN q
                               ELSE <<[it EXCEPT !.pos = @ + 1]>> \o Tail(q)
    /\ UNCHANGED <<itemsKind, acc, result, k, index, count, ret>>

----------------------------------------------------------------------------
Next ==
    \/ Join
    \/ HelperLists
    \/ JoinLists
    \/ PresizeStep
    \/ ExtendStep
    \/ Convert
    \/ HelperStr
    \/ HelperReduce
    \/ HelperUnion
    \/ HelperUpdate
    \/ UpdateStep
    \/ UpdateReturn
    \/ HelperChain
    \/ ChainNext

Spec == Init /\ [][Next]_vars

----------------------------------------------------------------------------
(* Properties. *)

RECURSIVE Between(_, _, _, _)
\* its[lo] ++ sep ++ its[lo + 1] ++ ... ++ sep ++ its[hi]: the elements of the
\* items as the caller passed them, the separator between consecutive items
Between(sep, its, lo, hi) ==
    IF lo > hi THEN <<>>
    ELSE IF lo = hi THEN its[lo].val
    ELSE (Between(sep, its, lo, (lo + hi) \div 2) \o sep)
            \o Between(sep, its, ((lo + hi) \div 2) + 1, hi)

\* items[1] ++ sep ++ items[2] ++ ... ++ sep ++ items[n]
Interleaved(sep, its, n) == Between(sep, its, 1, n)

IsPrefix(a, b) == Len(a) <= Len(b) /\ SubSeq(b, 1, Len(a)) = a

\* every item is a sequence of the list and tuple families
AllSequences == \A i \in 1..Len(items) : IsTupleOrList(items[i].kind)

\* C1: for a list-like or tuple-like prototype and n >= 1 items that are sequences,
\* the call returns exactly items[1] ++ j ++ items[2] ++ ... ++ items[n], where j
\* is the joiner, or nothing when the joiner is omitted.
C1_SequenceJoin ==
    (pc = "done" /\ Len(items) >= 1 /\ IsTupleOrList(prototype.kind) /\ AllSequences)
        => /\ ret.status = "ok"
           /\ ~ret.wrapped
           /\ ret.val = Interleaved(J, items, Len(items))

\* C2: for a character-string prototype and n >= 1 string items the call returns
\* items[1] + j + items[2] + ... + items[n]; for n = 1 that is the item alone.
C2_StringJoin ==
    (pc = "done" /\ Len(items) >= 1 /\ IsBasestring(prototype.kind)
                 /\ \A i \in 1..Len(items) : IsBasestring(items[i].kind))
        => /\ ret.status = "ok"
           /\ ret.val = Interleaved(J, items, Len(items))

\* the joiner is iterable and its type can be called without arguments, as the
\* docstring assumes
NoArgConstructible(o) ==
    /\ IsIterable(o.kind)
    /\ o.kind \notin {"iterator", "listsub"}
    /\ o.kind = "namedtuple" => Len(o.val) = 0

\* C3: with a joiner and items that yield nothing, a realized container or a
\* one-shot iterator alike, the call does not raise and returns a new empty
\* instance of the joiner's type.
C3_EmptyItems ==
    (pc = "done" /\ ~no_joiner /\ Len(items) = 0 /\ NoArgConstructible(joiner))
        => /\ ret.status = "ok"
           /\ ret.kind = joiner.kind
           /\ ret.val = EmptyVal(joiner.kind)
           /\ ret.loc = "fresh"

\* the operands of a merge in call order: the joiner when given, then the items
MergeOperands == IF no_joiner THEN items ELSE <<joiner>> \o items

\* the last operand that has the key
LastWith(key) ==
    CHOOSE i \in 1..Len(MergeOperands) :
        /\ key \in DOMAIN MergeOperands[i].val
        /\ \A m \in (i + 1)..Len(MergeOperands) : key \notin DOMAIN MergeOperands[m].val

\* the returned value is the merge of the operands: for sets their union, for
\* mappings every key of any operand, with the value of the last operand that has it
IsMerge ==
    /\ ret.status = "ok"
    /\ ret.kind = prototype.kind
    /\ ret.loc \in {"fresh", "private"}
    /\ prototype.kind = "set" =>
            ret.val = UNION {MergeOperands[i].val : i \in 1..Len(MergeOperands)}
    /\ prototype.kind = "dict" =>
            /\ DOMAIN ret.val = UNION {DOMAIN MergeOperands[i].val : i \in 1..Len(MergeOperands)}
            /\ \A key \in DOMAIN ret.val : ret.val[key] = MergeOperands[LastWith(key)].val[key]

\* C4: with the joiner omitted and n >= 1 sets or mappings, the call succeeds
\* and returns the merge of the items.
C4_MergeWithoutJoiner ==
    (pc = "done" /\ no_joiner /\ Len(items) >= 1 /\ HasUpdate(first.kind)) => IsMerge

\* C5: with a joiner that is a set or a mapping, the call returns the merge of
\* joiner, first item and remaining items: the union of them all for sets
\* (whatever the order of the items), and for mappings each key with the value
\* of the last operand that has it, the joiner being the earliest operand.
C5_MergeWithJoiner ==
    (pc = "done" /\ ~no_joiner /\ Len(items) >= 1 /\ HasUpdate(joiner.kind)) => IsMerge

\* a mapping call where one key is in the joiner and in two items, and the
\* second item's value is the one returned
C5_Witness ==
    /\ pc = "done"
    /\ ~no_joiner
    /\ joiner.kind = "dict"
    /\ Len(items) >= 2
    /\ ret.status = "ok"
    /\ \E key \in DOMAIN joiner.val :
            /\ key \in DOMAIN items[1].val
            /\ key \in DOMAIN items[2].val
            /\ items[1].val[key] # items[2].val[key]
            /\ ret.val[key] = items[2].val[key]

\* the call returned a chain of iterators
Chained == ret.status = "ok" /\ ret.kind = "chain"

\* C6: what the caller has taken from the chain is at every moment a prefix of
\* first ++ joiner ++ item 2 ++ ... ++ joiner ++ item n (without the joiners
\* when the joiner is omitted), and is all of it once the chain is exhausted.
C6_ChainOrder ==
    Chained => /\ IsPrefix(yielded, Interleaved(J, items, Len(items)))
               /\ pc = "done" => yielded = Interleaved(J, items, Len(items))

\* a chain over three items and a one-shot joiner with two elements, drained
C6_Witness ==
    /\ Chained
    /\ pc = "done"
    /\ ~no_joiner
    /\ joiner.kind = "iterator"
    /\ Len(joiner.val) = 2
    /\ Len(items) = 3
    /\ Len(yielded) > 2 * Len(joiner.val)

\* join_lists ran to the end of its loop, or raised
ListsEnded ==
    \/ pc \in {"presize", "extend"} /\ k > li
    \/ pc = "done" /\ ret.status = "TypeError" /\ acc.kind = "list"

\* what join_lists came to
ListsOutcome ==
    IF pc = "done" THEN [status |-> "TypeError", val |-> <<>>]
    ELSE [status |-> "ok", val |-> Deref(result).val]

\* C7: whichever path the threshold selects, join_lists ends as the other path
\* would on the same joiner, accumulator and items: the same contents, or both
\* fail; items without a length included.
C7_PathsAgree ==
    ListsEnded =>
        ListsOutcome = IF li > THRESHOLD
                       THEN ExtendPath(first.val, [i \in 1..Len(items) |-> Orig(items[i])])
                       ELSE PresizePath(first.val, [i \in 1..Len(items) |-> Orig(items[i])])

\* a step leaves the object as the caller passed it; a one-shot iterator may advance
Untouched(o, p) ==
    /\ p.kind = o.kind
    /\ p.val = o.val
    /\ o.kind # "iterator" => p = o

\* C8: no step of a call, failing calls included, changes the joiner or an item
\* (a one-shot iterator may advance, its elements stay), and what a step writes
\* to is the accumulator the call built, which is none of the caller's objects.
C8_CallerUntouched ==
    [][/\ Untouched(joiner, joiner')
       /\ Len(items') = Len(items)
       /\ \A i \in 1..Len(items) : Untouched(items[i], items'[i])
       /\ acc' # acc => result'.space = "private"]_vars

\* a list call that extended its accumulator by a joiner and an item, finished
C8_Witness ==
    /\ pc = "done"
    /\ ret.status = "ok"
    /\ ~no_joiner
    /\ result.space = "private"
    /\ acc.kind = "list"
    /\ Len(joiner.val) > 0
    /\ Len(items) >= 2
    /\ Len(items[2].val) > 0
    /\ Len(acc.val) > Len(items[1].val)

\* C9: on the pre-sizing path the accumulator is grown once, by
\* sum(len(item)) + item_count * joiner_len placeholders, and keeps that length;
\* before each iteration the write index plus the joiner's and the item's
\* lengths is within it; when the loop ends the index is the length and no
\* placeholder is left; the copy of the first item stays at the front.
C9_Presize ==
    pc = "presize" =>
        /\ count = Len(Between(<<>>, items, 2, Len(items))) + (Len(items) - 1) * Len(J)
        /\ Len(acc.val) = Len(first.val) + count
        /\ k <= li => index + Len(J) + Len(items[k + 1].val) <= Len(acc.val)
        /\ k > li => /\ index = Len(acc.val)
                     /\ \A m \in 1..Len(acc.val) : acc.val[m] # None
        /\ SubSeq(acc.val, 1, Len(first.val)) = first.val

\* the pre-sizing loop at its end, with a joiner and items that are not all empty
C9_Witness ==
    /\ pc = "presize"
    /\ k > li
    /\ li > THRESHOLD
    /\ Len(J) > 0
    /\ Len(first.val) > 0
    /\ count > li * Len(J)

\* C10: for a list-like or tuple-like prototype a call that returns gives the
\* joined contents, element for element, as an instance of the prototype's type
\* or, when that cannot be built, as a plain tuple for a tuple-like prototype
\* and a plain list otherwise.
C10_ResultType ==
    (pc = "done" /\ ret.status = "ok" /\ Len(items) >= 1 /\ IsTupleOrList(prototype.kind))
        => /\ ret.kind \in {prototype.kind, IF IsTuple(prototype.kind) THEN "tuple" ELSE "list"}
           /\ ~ret.wrapped
           /\ ret.val = Deref(result).val

====
